---- MODULE Spec2Model ----
(***************************************************************************)
(* fusionsolar2mqtt: one run of the bridge (fusionsolar2mqtt.py __main__)  *)
(* and the functions it calls (fusionsolar/fusionsolar.py, mqtt.py,        *)
(* settings.py).                                                           *)
(*                                                                         *)
(* Python's None is the empty sequence <<>> and a present value v is <<v>>.*)
(* A dict is a function whose DOMAIN is its key set.                       *)
(***************************************************************************)
EXTENDS Integers, Sequences, FiniteSets, TLC

VARIABLES
    plant_data,     \* list of PlantRealTimeData handed to compute_plant_data
    device_data,    \* list of DeviceRTData handed to compute_plant_data
    computed,       \* <<>> before the call, <<result>> once compute_plant_data returned
    cpc,            \* position of the compute_plant_data call: "call" | "returned"
    pc,             \* position of __main__
    argv,           \* the command line: --settings, --list, --debug
    settings_files, \* the settings files on disk: path -> None (absent) | Some(content)
    settings,       \* __main__'s settings: None until load_settings returned
    args,           \* __main__'s args: None until parse_args returned
    level,          \* logging level handed to logging.basicConfig
    device_file,    \* the device cache file: [kind, plants]
    cache_read,     \* what get_devices found at the device-file path
    plants,         \* __main__'s plants: None until get_devices returned
    session,        \* pyhfs.ClientSession: "none" | "open" | "closed"
    remote_log,     \* the requests issued to the remote source, in order
    raised,         \* the exception propagating, None when there is none
    data,           \* __main__'s data: None until get_realtime_data returned
    mqtt,           \* MQTT client: "none" | "connected" | "disconnected"
    publish_rc,     \* result.rc of client.publish: None | Some("ok") | Some("error")
    queued,         \* the message client.publish queued and the loop thread has not sent yet
    sink,           \* the messages sent to the broker, in order
    publish_result, \* what mqtt_publish found: None | Some("acked" | "timeout" | "failed")
    printed,        \* the record printed by --list: None | Some(lines)
    log,            \* the set of log events emitted
    exit_status     \* None while running, Some(code) once the process ended

cvars == <<plant_data, device_data, computed, cpc>>
envvars == <<argv, settings_files>>
cfgvars == <<settings, args, level>>
regvars == <<device_file, cache_read, plants>>
sessvars == <<session, remote_log>>
mqttvars == <<mqtt, publish_rc, queued, sink, publish_result>>
vars == <<plant_data, device_data, computed, cpc, pc, argv, settings_files, settings,
          args, level, device_file, cache_read, plants, session, remote_log, raised,
          data, mqtt, publish_rc, queued, sink, publish_result, printed, log,
          exit_status>>

---------------------------------------------------------------------------
(* Bounds and input sets *)

MaxReadings == 3

None == <<>>
Some(v) == <<v>>
IsNone(x) == x = <<>>
Val(x) == x[1]

Max(a, b) == IF a >= b THEN a ELSE b
Min(a, b) == IF a <= b THEN a ELSE b

\* Device.DEVICE_DATA_TYPES flags; dev_data is a set of flags, `&` is membership
PRODUCTION == "PRODUCTION"
BATTERY == "BATTERY"
METER == "METER"

PlantHome == [id |-> 1, name |-> "home"]
PlantBarn == [id |-> 2, name |-> "barn"]
ComputePlants == {PlantHome, PlantBarn}

CapSets == {{PRODUCTION}, {BATTERY}, {METER}, {PRODUCTION, BATTERY}}
MpptValues == {0, 5}
ChDischargeValues == {-800, 0, 700}
ActivePowerValues == {-1200, 300}

DevName(caps) ==
    IF caps = {PRODUCTION} THEN "inverter"
    ELSE IF caps = {BATTERY} THEN "battery"
    ELSE IF caps = {METER} THEN "meter"
    ELSE "hybrid"

\* A Device of a plant: identity, name, capability mask, back-reference to its plant
DeviceOf(plant, caps) ==
    [id |-> <<plant.id, DevName(caps)>>, name |-> DevName(caps),
     dev_data |-> caps, plant |-> plant]

\* The DeviceRTData readings a device can report: a field the device's kind
\* does not carry is None
ReadingsOf(dev) ==
    { [device |-> dev, mppt_power |-> m, ch_discharge_power |-> c, active_power |-> a] :
        m \in (IF PRODUCTION \in dev.dev_data THEN {Some(v) : v \in MpptValues} ELSE {None}),
        c \in (IF BATTERY \in dev.dev_data THEN {Some(v) : v \in ChDischargeValues} ELSE {None}),
        a \in (IF METER \in dev.dev_data THEN {Some(v) : v \in ActivePowerValues} ELSE {None}) }

ComputeReadings ==
    UNION { ReadingsOf(DeviceOf(p, caps)) : p \in ComputePlants, caps \in CapSets }

\* A PlantRealTimeData reading: its plant and one exported property
PlantReading(plant, dp) == [plant |-> plant, day_power |-> dp]

SeqsUpTo(S, n) == UNION { [1..k -> S] : k \in 0..n }

\* Lists of plant readings, one reading per plant at most (one bulk request)
PlantReadingLists(preadings, n) ==
    { s \in SeqsUpTo(preadings, n) :
        \A i, j \in 1..Len(s) : i # j => s[i].plant.id # s[j].plant.id }

\* Lists of device readings, one reading per device at most (one bulk request)
DeviceReadingLists(readings, n) ==
    { s \in SeqsUpTo(readings, n) :
        \A i, j \in 1..Len(s) : i # j => s[i].device.id # s[j].device.id }

---------------------------------------------------------------------------
(* fusionsolar.py: compute_plant_data *)

ScanInitMeterZero ==
    [production |-> None, ch_battery |-> None, dis_battery |-> None, meter |-> Some(0)]

\* production, ch_battery, dis_battery, meter = None, None, None, None
ScanInit == [production |-> None, ch_battery |-> None, dis_battery |-> None, meter |-> None]

\* production = ddata.mppt_power * 1000
ProductionOf(ddata) == Val(ddata.mppt_power) * 1000

\* ch_battery = max(ddata.ch_discharge_power, 0)
ChBatteryOf(ddata) == Max(Val(ddata.ch_discharge_power), 0)

DisBatteryUnnegated(ddata) == Max(Val(ddata.ch_discharge_power), 0)

\* dis_battery = max(-ddata.ch_discharge_power, 0)
DisBatteryOf(ddata) == Max(-Val(ddata.ch_discharge_power), 0)

\* meter = ddata.active_power
MeterOf(ddata) == Val(ddata.active_power)

\* One iteration of the inner loop: every matching capability branch executes
ScanStep(acc, ddata) ==
    LET a1 == IF PRODUCTION \in ddata.device.dev_data
              THEN [acc EXCEPT !.production = Some(ProductionOf(ddata))]
              ELSE acc
        a2 == IF BATTERY \in ddata.device.dev_data
              THEN [a1 EXCEPT !.ch_battery = Some(ChBatteryOf(ddata)),
                              !.dis_battery = Some(DisBatteryOf(ddata))]
              ELSE a1
        a3 == IF METER \in ddata.device.dev_data
              THEN [a2 EXCEPT !.meter = Some(MeterOf(ddata))]
              ELSE a2
    IN a3

\* for ddata in [d for d in device_data if d.device.plant == plant]: ...
RECURSIVE ScanFrom(_, _, _, _)
ScanFrom(plant, ddatas, i, acc) ==
    IF i > Len(ddatas) THEN acc
    ELSE ScanFrom(plant, ddatas, i + 1,
                  IF ddatas[i].device.plant = plant THEN ScanStep(acc, ddatas[i]) ELSE acc)

ScanPlant(plant, ddatas) == ScanFrom(plant, ddatas, 1, ScanInit)

\* (x or 0)
OrZero(x) == IF IsNone(x) THEN 0 ELSE Val(x)

ConsumptionMeterAdded(acc) ==
    Val(acc.production) + Val(acc.meter) - OrZero(acc.ch_battery) + OrZero(acc.dis_battery)

\* consumption = production - meter - (ch_battery or 0) + (dis_battery or 0)
Consumption(acc) ==
    Val(acc.production) - Val(acc.meter) - OrZero(acc.ch_battery) + OrZero(acc.dis_battery)

\* min(production, consumption + (ch_battery or 0))
ConsumptionPv(acc) ==
    Min(Val(acc.production), Consumption(acc) + OrZero(acc.ch_battery))

\* if production is not None and meter is not None
HasRecord(acc) == ~IsNone(acc.production) /\ ~IsNone(acc.meter)

\* if ch_battery is not None and dis_battery is not None
HasBattery(acc) == ~IsNone(acc.ch_battery) /\ ~IsNone(acc.dis_battery)

BaseKeys == {"production", "consumption", "consumption_pv"}
BatteryKeys == {"ch_battery", "dis_battery"}

\* result[plant]["power"]
PowerDict(acc) ==
    [k \in BaseKeys \cup (IF HasBattery(acc) THEN BatteryKeys ELSE {}) |->
        CASE k = "production" -> Val(acc.production)
          [] k = "consumption" -> Consumption(acc)
          [] k = "consumption_pv" -> ConsumptionPv(acc)
          [] k = "ch_battery" -> Val(acc.ch_battery)
          [] k = "dis_battery" -> Val(acc.dis_battery)]

\* plants = {data.plant: data for data in plant_data}; for plant in plants.keys()
PlantsOf(pdatas) == { pdatas[i].plant : i \in 1..Len(pdatas) }

compute_plant_data(pdatas, ddatas) ==
    [plant \in { p \in PlantsOf(pdatas) : HasRecord(ScanPlant(p, ddatas)) } |->
        [power |-> PowerDict(ScanPlant(plant, ddatas))]]

---------------------------------------------------------------------------
(* compute_plant_data applied to every bounded input *)

\* The run has not started and never does
RunIdle ==
    /\ pc = "idle"
    /\ argv = [settings |-> None, list |-> FALSE, debug |-> FALSE]
    /\ settings_files = [f \in {"settings.yml"} |-> None]
    /\ settings = None /\ args = None /\ level = None
    /\ device_file = [kind |-> "absent", plants |-> <<>>]
    /\ cache_read = None /\ plants = None
    /\ session = "none" /\ remote_log = <<>> /\ raised = None
    /\ data = None
    /\ mqtt = "none" /\ publish_rc = None /\ queued = None
    /\ sink = <<>> /\ publish_result = None
    /\ printed = None /\ log = {} /\ exit_status = None

ComputeInit ==
    /\ RunIdle
    /\ plant_data \in PlantReadingLists({PlantReading(p, Some(3)) : p \in ComputePlants},
                                        Cardinality(ComputePlants))
    /\ device_data \in DeviceReadingLists(ComputeReadings, MaxReadings)
    /\ computed = None
    /\ cpc = "call"

Compute ==
    /\ cpc = "call"
    /\ computed' = Some(compute_plant_data(plant_data, device_data))
    /\ cpc' = "returned"
    /\ UNCHANGED <<plant_data, device_data, pc, envvars, cfgvars, regvars, sessvars,
                   raised, data, mqttvars, printed, log, exit_status>>

ComputeNext == Compute

ComputeSpec == ComputeInit /\ [][ComputeNext]_vars

---------------------------------------------------------------------------
(* The environment of one run *)

MaxPlants == 2

PlantNames == {"home", "barn"}

\* The device sets a plant can own, in the order the remote source lists them
Kits == { <<{PRODUCTION}>>, <<{PRODUCTION}, {METER}, {BATTERY}>> }

PlantRef(i, name) == [id |-> i, name |-> name]

\* A Plant: identity, name and its owned devices
PlantOf(i, name, kit) ==
    [id |-> i, name |-> name,
     devices |-> [k \in 1..Len(kit) |-> DeviceOf(PlantRef(i, name), kit[k])]]

\* The plant lists an account can hold: ids are distinct, names need not be
Registries ==
    UNION { { [i \in 1..n |-> PlantOf(i, names[i], kits[i])] :
                names \in [1..n -> PlantNames], kits \in [1..n -> Kits] } : n \in 0..MaxPlants }

\* load_settings' schema: the required sections, in the order they are checked,
\* and the sub-keys required in each
SchemaKeys == <<"system", "fusionsolar", "mqtt">>
SchemaSubKeys ==
    [system |-> {"logLevel"},
     fusionsolar |-> {"username", "password"},
     mqtt |-> {"auth", "connectTimeout", "host", "password", "port", "reconnectPeriod",
               "topic", "username"}]

\* A settings document as yaml.load returns it: data is None (empty file) or a
\* mapping section -> None (section without sub-keys) | Some(its sub-keys);
\* logLevel, username and topic are the values the run reads
FullSections == [k \in {"system", "fusionsolar", "mqtt"} |-> Some(SchemaSubKeys[k])]

Doc(sections, lvl, user, topic) ==
    [data |-> sections, logLevel |-> lvl, username |-> user, topic |-> topic]

CfgMain == Doc(Some(FullSections), "info", "alice", "solar/main")
CfgAlt == Doc(Some(FullSections), "warning", "bob", "solar/alt")
\* logLevel warning and error: logger.info, resp. logger.info and
\* logger.warning, emit nothing
CfgWarn == Doc(Some(FullSections), "warning", "alice", "solar/main")
CfgErr == Doc(Some(FullSections), "error", "alice", "solar/main")
\* an unsupported log level
CfgBadLevel == Doc(Some(FullSections), "verbose", "alice", "solar/main")
\* mqtt lacks the sub-key topic
CfgNoTopic ==
    Doc(Some([FullSections EXCEPT !.mqtt = Some(SchemaSubKeys.mqtt \ {"topic"})]),
        "info", "alice", "")
\* no fusionsolar section
CfgNoSection ==
    Doc(Some([k \in {"system", "mqtt"} |-> Some(SchemaSubKeys[k])]), "info", "", "solar/main")
\* an empty file: yaml.load returns None
CfgEmpty == Doc(None, "", "", "")
\* `system:` without sub-keys: data["system"] is None
CfgNullSection == Doc(Some([FullSections EXCEPT !.system = None]), "", "alice", "solar/main")

DefaultSettings == "settings.yml"
OtherSettings == "other.yml"

\* LOG_LEVELS
LOG_LEVELS == [info |-> "INFO", warning |-> "WARNING", debug |-> "DEBUG", error |-> "ERROR"]

\* The numeric value of the logging levels (logging.DEBUG ... logging.CRITICAL)
LevelNo == [DEBUG |-> 10, INFO |-> 20, WARNING |-> 30, ERROR |-> 40, CRITICAL |-> 50]

\* The level below which a record is dropped: the one given to
\* logging.basicConfig, and WARNING (the root logger's default, served by
\* logging's last-resort handler) before basicConfig has run
Threshold == IF IsNone(level) THEN LevelNo["WARNING"] ELSE LevelNo[Val(level)]

\* logger.<lvl>(msg): the log after the call, msg being emitted only when lvl
\* is at or above the threshold
Logged(lvl, msg) == IF LevelNo[lvl] >= Threshold THEN log \cup {msg} ELSE log

Append2(s, a, b) == Append(Append(s, a), b)

---------------------------------------------------------------------------
(* settings.py: load_settings, and fusionsolar2mqtt.py: parse_args *)

\* with filename.open("r"): the document at that path, None when there is none
ReadSettings(filename) == settings_files[filename]

\* The path __main__ hands to load_settings
ConfFile == DefaultSettings

\* for key, values in schema.items(): if key not in data ...; for subkey in
\* values: if subkey not in data[key] ...  The first check that does not pass
\* decides: "fatal" (logger.fatal, exit(-1)) or "type_error" (`in` applied to
\* None raises TypeError); "ok" when every check passes
RECURSIVE SchemaCheckFrom(_, _)
SchemaCheckFrom(doc, i) ==
    IF i > Len(SchemaKeys) THEN "ok"
    ELSE LET key == SchemaKeys[i]
         IN IF IsNone(doc.data) THEN "type_error"
            ELSE IF key \notin DOMAIN Val(doc.data) THEN "fatal"
            ELSE IF IsNone(Val(doc.data)[key]) THEN "type_error"
            ELSE IF ~(SchemaSubKeys[key] \subseteq Val(Val(doc.data)[key])) THEN "fatal"
            ELSE SchemaCheckFrom(doc, i + 1)

SchemaCheck(doc) == SchemaCheckFrom(doc, 1)

\* parser.add_argument("--settings", type=Path, default=Path("settings.yml"))
ArgSettings == IF IsNone(argv.settings) THEN DefaultSettings ELSE Val(argv.settings)

RunInit ==
    /\ pc = "start"
    /\ argv \in [settings : {None, Some(OtherSettings)}, list : BOOLEAN, debug : BOOLEAN]
    /\ settings_files \in
          { [f \in {DefaultSettings, OtherSettings} |-> IF f = DefaultSettings THEN a ELSE b] :
              a \in {None, Some(CfgMain), Some(CfgWarn), Some(CfgErr), Some(CfgBadLevel),
                     Some(CfgNoTopic), Some(CfgNoSection), Some(CfgEmpty),
                     Some(CfgNullSection)},
              b \in {None, Some(CfgAlt)} }
    /\ device_file \in
          { [kind |-> k, plants |-> <<>>] : k \in {"absent", "bad_json", "bad_shape"} }
          \cup { [kind |-> "plants", plants |-> r] : r \in Registries }
    /\ settings = None /\ args = None /\ level = None
    /\ cache_read = None /\ plants = None
    /\ session = "none" /\ remote_log = <<>> /\ raised = None
    /\ plant_data = <<>> /\ device_data = <<>> /\ computed = None /\ cpc = "idle"
    /\ data = None
    /\ mqtt = "none" /\ publish_rc = None /\ queued = None
    /\ sink = <<>> /\ publish_result = None
    /\ printed = None /\ log = {} /\ exit_status = None

\* The process ends with the given status
Exit(code) == pc' = "exited" /\ exit_status' = Some(code)

\* settings = load_settings(conf_file): the file cannot be opened (uncaught
\* FileNotFoundError, status 1)
LoadSettingsNoFile ==
    /\ pc = "start"
    /\ IsNone(ReadSettings(ConfFile))
    /\ Exit(1)
    /\ UNCHANGED <<cvars, envvars, cfgvars, regvars, sessvars, raised, data, mqttvars,
                   printed, log>>

\* load_settings: a required key or sub-key is missing, logger.fatal and exit(-1)
LoadSettingsMissingKey ==
    /\ pc = "start"
    /\ ~IsNone(ReadSettings(ConfFile))
    /\ SchemaCheck(Val(ReadSettings(ConfFile))) = "fatal"
    /\ Exit(255)
    /\ log' = Logged("CRITICAL", "fatal_missing_key")
    /\ UNCHANGED <<cvars, envvars, cfgvars, regvars, sessvars, raised, data, mqttvars,
                   printed>>

\* load_settings: the document or one of its sections is None, the membership
\* test raises TypeError (uncaught, nothing logged, status 1)
LoadSettingsTypeError ==
    /\ pc = "start"
    /\ ~IsNone(ReadSettings(ConfFile))
    /\ SchemaCheck(Val(ReadSettings(ConfFile))) = "type_error"
    /\ Exit(1)
    /\ UNCHANGED <<cvars, envvars, cfgvars, regvars, sessvars, raised, data, mqttvars,
                   printed, log>>

\* load_settings returns the document
LoadSettingsOk ==
    /\ pc = "start"
    /\ ~IsNone(ReadSettings(ConfFile))
    /\ SchemaCheck(Val(ReadSettings(ConfFile))) = "ok"
    /\ settings' = ReadSettings(ConfFile)
    /\ pc' = "loaded"
    /\ UNCHANGED <<cvars, envvars, args, level, regvars, sessvars, raised, data, mqttvars,
                   printed, log, exit_status>>

\* parse_args: if not args.settings.exists(): parser.error (status 2)
ParseArgsNoSettings ==
    /\ pc = "loaded"
    /\ IsNone(settings_files[ArgSettings])
    /\ Exit(2)
    /\ UNCHANGED <<cvars, envvars, cfgvars, regvars, sessvars, raised, data, mqttvars,
                   printed, log>>

ParseArgsOk ==
    /\ pc = "loaded"
    /\ ~IsNone(settings_files[ArgSettings])
    /\ args' = Some([settings |-> ArgSettings, list |-> argv.list, debug |-> argv.debug])
    /\ pc' = "parsed"
    /\ UNCHANGED <<cvars, envvars, settings, level, regvars, sessvars, raised, data,
                   mqttvars, printed, log, exit_status>>

\* if sys_settings["logLevel"] not in LOG_LEVELS: parser.error (status 2)
LogLevelUnsupported ==
    /\ pc = "parsed"
    /\ Val(settings).logLevel \notin DOMAIN LOG_LEVELS
    /\ Exit(2)
    /\ UNCHANGED <<cvars, envvars, cfgvars, regvars, sessvars, raised, data, mqttvars,
                   printed, log>>

\* level = logging.DEBUG if args.debug else LOG_LEVELS[...]; logging.basicConfig
ConfigureLogging ==
    /\ pc = "parsed"
    /\ Val(settings).logLevel \in DOMAIN LOG_LEVELS
    /\ level' = Some(IF Val(args).debug THEN "DEBUG" ELSE LOG_LEVELS[Val(settings).logLevel])
    /\ pc' = "configured"
    /\ UNCHANGED <<cvars, envvars, settings, args, regvars, sessvars, raised, data,
                   mqttvars, printed, log, exit_status>>

---------------------------------------------------------------------------
(* fusionsolar2mqtt.py: with pyhfs.ClientSession(...) as client *)

\* The session state once the with-block is left, normally or by an exception
SessionLeakOnRaise(exc) == IF IsNone(exc) THEN "closed" ELSE "open"
SessionAfterWith(exc) == "closed"

\* Entering the with-block: the session is acquired (login)
SessionEnter ==
    /\ pc = "configured"
    /\ session' = "open"
    /\ remote_log' = Append(remote_log, "login")
    /\ pc' = "in_session"
    /\ UNCHANGED <<cvars, envvars, cfgvars, regvars, raised, data, mqttvars, printed, log,
                   exit_status>>

\* Entering the with-block fails (login refused, network): uncaught, status 1
SessionEnterFails ==
    /\ pc = "configured"
    /\ remote_log' = Append(remote_log, "login")
    /\ Exit(1)
    /\ UNCHANGED <<cvars, envvars, cfgvars, regvars, session, raised, data, mqttvars,
                   printed, log>>

\* Leaving the with-block: __exit__ releases the session; a propagating
\* exception then ends the process (status 1)
SessionExit ==
    /\ pc \in {"with_end", "unwind"}
    /\ session' = SessionAfterWith(raised)
    /\ remote_log' = IF SessionAfterWith(raised) = "closed"
                     THEN Append(remote_log, "logout") ELSE remote_log
    /\ IF IsNone(raised)
       THEN pc' = "after_with" /\ UNCHANGED exit_status
       ELSE Exit(1)
    /\ UNCHANGED <<cvars, envvars, cfgvars, regvars, raised, data, mqttvars, printed, log>>

---------------------------------------------------------------------------
(* fusionsolar.py: get_devices *)

\* except json.JSONDecodeError: the only parse failure that is caught
ParseErrorCaught(kind) == kind = "bad_json"

\* if plants is None: no file, or a file whose parse failure was caught
NeedsRemote(kind) == kind = "absent" \/ ParseErrorCaught(kind)

\* The file parses: plants = pyhfs.Plant.from_list(json.load(f)), no request
GetDevicesFromCache ==
    /\ pc = "in_session"
    /\ device_file.kind = "plants"
    /\ cache_read' = Some("plants")
    /\ plants' = Some(device_file.plants)
    /\ pc' = "have_plants"
    /\ UNCHANGED <<cvars, envvars, cfgvars, device_file, sessvars, raised, data, mqttvars,
                   printed, log, exit_status>>

\* The file is well-formed JSON but no list of Plant records, and
\* Plant.from_list raises (KeyError, TypeError, ...): not a JSONDecodeError,
\* so the exception leaves get_devices
GetDevicesBadShapeRaises ==
    /\ pc = "in_session"
    /\ device_file.kind = "bad_shape"
    /\ ~ParseErrorCaught(device_file.kind)
    /\ cache_read' = Some("bad_shape")
    /\ raised' = Some("from_list")
    /\ pc' = "unwind"
    /\ UNCHANGED <<cvars, envvars, cfgvars, device_file, plants, sessvars, data, mqttvars,
                   printed, log, exit_status>>

\* The file is well-formed JSON but no list of Plant records, and
\* Plant.from_list returns without raising (an empty document such as {} holds
\* no plant): plants is not None, so nothing is requested
GetDevicesBadShapeAccepted ==
    /\ pc = "in_session"
    /\ device_file.kind = "bad_shape"
    /\ ~NeedsRemote(device_file.kind)
    /\ cache_read' = Some("bad_shape")
    /\ plants' = Some(<<>>)
    /\ pc' = "have_plants"
    /\ UNCHANGED <<cvars, envvars, cfgvars, device_file, sessvars, raised, data, mqttvars,
                   printed, log, exit_status>>

\* No usable file: get_plant_list, get_device_list, then the file is written
GetDevicesRemote ==
    /\ pc = "in_session"
    /\ NeedsRemote(device_file.kind)
    /\ cache_read' = Some(device_file.kind)
    /\ log' = IF ParseErrorCaught(device_file.kind) THEN Logged("ERROR", "cache_error") ELSE log
    /\ \E reg \in Registries :
          /\ plants' = Some(reg)
          /\ device_file' = [kind |-> "plants", plants |-> reg]
    /\ remote_log' = Append2(remote_log, "get_plant_list", "get_device_list")
    /\ pc' = "have_plants"
    /\ UNCHANGED <<cvars, envvars, cfgvars, session, raised, data, mqttvars, printed,
                   exit_status>>

\* No usable file and one of the two requests raises: nothing is written
GetDevicesRemoteRaises ==
    /\ pc = "in_session"
    /\ NeedsRemote(device_file.kind)
    /\ cache_read' = Some(device_file.kind)
    /\ log' = IF ParseErrorCaught(device_file.kind) THEN Logged("ERROR", "cache_error") ELSE log
    /\ \/ remote_log' = Append(remote_log, "get_plant_list")
       \/ remote_log' = Append2(remote_log, "get_plant_list", "get_device_list")
    /\ raised' = Some("remote")
    /\ pc' = "unwind"
    /\ UNCHANGED <<cvars, envvars, cfgvars, device_file, plants, session, data, mqttvars,
                   printed, exit_status>>

---------------------------------------------------------------------------
(* fusionsolar.py: data_to_dict, get_realtime_data *)

PlantFields == {"day_power"}
DeviceFields == {"mppt_power", "ch_discharge_power", "active_power"}

\* The properties of the reading whose value is exportable (None is not)
data_to_dict(reading, fields) ==
    [f \in { g \in fields : ~IsNone(reading[g]) } |-> Val(reading[f])]

RECURSIVE Flatten(_)
Flatten(ss) == IF ss = <<>> THEN <<>> ELSE Head(ss) \o Flatten(Tail(ss))

\* devices = {}; for plant in plants.values(): devices.update({d.id: d ...})
DevicesOfPlants(reg) == Flatten([i \in 1..Len(reg) |-> reg[i].devices])

\* pname(data), dname(data)
pname(pdata) == pdata.plant.name
dname(ddata) == ddata.device.plant.name \o "." \o ddata.device.name

LastIdx(S) == CHOOSE i \in S : \A j \in S : j <= i

\* {pname(pdata): data_to_dict(pdata) for pdata in plant_data}: a later reading
\* with the same key replaces the earlier one
PlantsDict(pdatas) ==
    [n \in { pname(pdatas[i]) : i \in 1..Len(pdatas) } |->
        data_to_dict(pdatas[LastIdx({ i \in 1..Len(pdatas) : pname(pdatas[i]) = n })],
                     PlantFields)]

\* {dname(ddata): data_to_dict(ddata) for ddata in device_data}
DevicesDict(ddatas) ==
    [k \in { dname(ddatas[i]) : i \in 1..Len(ddatas) } |->
        data_to_dict(ddatas[LastIdx({ i \in 1..Len(ddatas) : dname(ddatas[i]) = k })],
                     DeviceFields)]

\* for plant, value in computed_data.items():
\*     result["plants"][plant.name]["power"] = value["power"]
WithPower(pdict, pdatas, comp) ==
    [n \in DOMAIN pdict |->
        LET idx == { i \in 1..Len(pdatas) :
                        pname(pdatas[i]) = n /\ pdatas[i].plant \in DOMAIN comp }
        IN IF idx = {} THEN pdict[n]
           ELSE [k \in DOMAIN pdict[n] \cup {"power"} |->
                    IF k = "power" THEN comp[pdatas[LastIdx(idx)].plant].power
                    ELSE pdict[n][k]]]

\* result of get_realtime_data once both replies are in
ExportRecord(pdatas, ddatas) ==
    [plants |-> WithPower(PlantsDict(pdatas), pdatas, compute_plant_data(pdatas, ddatas)),
     devices |-> DevicesDict(ddatas)]

\* The battery power the remote source reports in this run
RemoteChDischarge == {-800, 700}

\* The reply of get_plant_realtime_data: one reading per plant
RemotePlantData(reg) ==
    [i \in 1..Len(reg) |-> PlantReading(PlantRef(reg[i].id, reg[i].name), Some(3))]

\* The reply of get_device_realtime_data: one reading per device
RemoteDeviceData(devs, x) ==
    [i \in 1..Len(devs) |->
        [device |-> devs[i],
         mppt_power |-> IF PRODUCTION \in devs[i].dev_data THEN Some(5) ELSE None,
         ch_discharge_power |-> IF BATTERY \in devs[i].dev_data THEN Some(x) ELSE None,
         active_power |-> IF METER \in devs[i].dev_data THEN Some(-1200) ELSE None]]

GetRealtimeData ==
    /\ pc = "have_plants"
    /\ \E x \in RemoteChDischarge :
          /\ plant_data' = RemotePlantData(Val(plants))
          /\ device_data' = RemoteDeviceData(DevicesOfPlants(Val(plants)), x)
    /\ computed' = Some(compute_plant_data(plant_data', device_data'))
    /\ data' = Some(ExportRecord(plant_data', device_data'))
    /\ remote_log' = Append2(remote_log, "get_plant_realtime_data",
                             "get_device_realtime_data")
    /\ pc' = "with_end"
    /\ UNCHANGED <<cpc, envvars, cfgvars, regvars, session, raised, mqttvars, printed, log,
                   exit_status>>

\* One of the two requests raises: nothing is returned
GetRealtimeDataRaises ==
    /\ pc = "have_plants"
    /\ \/ remote_log' = Append(remote_log, "get_plant_realtime_data")
       \/ remote_log' = Append2(remote_log, "get_plant_realtime_data",
                                "get_device_realtime_data")
    /\ raised' = Some("remote")
    /\ pc' = "unwind"
    /\ UNCHANGED <<cvars, envvars, cfgvars, regvars, session, data, mqttvars, printed, log,
                   exit_status>>

---------------------------------------------------------------------------
(* fusionsolar2mqtt.py: format_data and the --list branch *)

\* to_list(data): the (path, value) pairs of the leaves of the record; a dict
\* without items contributes nothing
ToList(rec) ==
    { [path |-> "plants/" \o n \o "/" \o f, value |-> rec.plants[n][f]] :
        <<n, f>> \in { <<n, f>> \in (DOMAIN rec.plants) \X PlantFields :
                          f \in DOMAIN rec.plants[n] } }
    \cup
    { [path |-> "plants/" \o n \o "/power/" \o k, value |-> rec.plants[n].power[k]] :
        <<n, k>> \in { <<n, k>> \in (DOMAIN rec.plants) \X (BaseKeys \cup BatteryKeys) :
                          /\ "power" \in DOMAIN rec.plants[n]
                          /\ k \in DOMAIN rec.plants[n].power } }
    \cup
    { [path |-> "devices/" \o dk \o "/" \o f, value |-> rec.devices[dk][f]] :
        <<dk, f>> \in { <<dk, f>> \in (DOMAIN rec.devices) \X DeviceFields :
                          f \in DOMAIN rec.devices[dk] } }

\* max([len(d[0]) for d in list_data]) raises ValueError on an empty list
FormatDataRaises(rec) == ToList(rec) = {}

\* --list: print the topic and the formatted record, exit(0)
ListData ==
    /\ pc = "after_with"
    /\ Val(args).list
    /\ ~FormatDataRaises(Val(data))
    /\ printed' = Some([topic |-> Val(settings).topic, lines |-> Some(ToList(Val(data)))])
    /\ Exit(0)
    /\ UNCHANGED <<cvars, envvars, cfgvars, regvars, sessvars, raised, data, mqttvars, log>>

\* --list: the topic is printed, format_data raises (uncaught, status 1)
ListDataRaises ==
    /\ pc = "after_with"
    /\ Val(args).list
    /\ FormatDataRaises(Val(data))
    /\ printed' = Some([topic |-> Val(settings).topic, lines |-> None])
    /\ Exit(1)
    /\ UNCHANGED <<cvars, envvars, cfgvars, regvars, sessvars, raised, data, mqttvars, log>>

---------------------------------------------------------------------------
(* mqtt.py: mqtt_connect, mqtt_publish; fusionsolar2mqtt.py: client.disconnect *)

\* json.dumps(payload, default=json_serial): the JSON text of the record
JsonDumps(rec) == [json |-> rec]

MqttMessagePlantsOnly(payload) == JsonDumps([plants |-> payload.plants, devices |-> <<>>])

\* msg = json.dumps(payload, default=json_serial) (payload is a dict)
MqttMessage(payload) == JsonDumps(payload)

\* The stage before mqtt_connect lets the run go on to the sink
ReachesSink == pc = "after_with" /\ ~Val(args).list

MqttConnect ==
    /\ ReachesSink
    /\ mqtt' = "connected"
    /\ pc' = "connected"
    /\ UNCHANGED <<cvars, envvars, cfgvars, regvars, sessvars, raised, data, publish_rc,
                   queued, sink, publish_result, printed, log, exit_status>>

\* client.connect raises (broker unreachable): uncaught, status 1
MqttConnectFails ==
    /\ ReachesSink
    /\ Exit(1)
    /\ UNCHANGED <<cvars, envvars, cfgvars, regvars, sessvars, raised, data, mqttvars,
                   printed, log>>

\* result = client.publish(topic, msg): the message is queued for the loop thread
ClientPublish ==
    /\ pc = "connected"
    /\ publish_rc' = Some("ok")
    /\ queued' = Some([topic |-> Val(settings).topic, payload |-> MqttMessage(Val(data))])
    /\ pc' = "waiting"
    /\ UNCHANGED <<cvars, envvars, cfgvars, regvars, sessvars, raised, data, mqtt, sink,
                   publish_result, printed, log, exit_status>>

\* result = client.publish(topic, msg) returns a failure code (result.rc > 0):
\* nothing is queued
ClientPublishFails ==
    /\ pc = "connected"
    /\ publish_rc' = Some("error")
    /\ pc' = "waiting"
    /\ UNCHANGED <<cvars, envvars, cfgvars, regvars, sessvars, raised, data, mqtt, queued,
                   sink, publish_result, printed, log, exit_status>>

\* The loop thread started by client.loop_start() sends the queued message; it
\* runs until client.disconnect()
LoopDeliver ==
    /\ mqtt = "connected"
    /\ ~IsNone(queued)
    /\ sink' = Append(sink, Val(queued))
    /\ queued' = None
    /\ UNCHANGED <<cvars, pc, envvars, cfgvars, regvars, sessvars, raised, data, mqtt,
                   publish_rc, publish_result, printed, log, exit_status>>

\* result.is_published()
IsPublished == publish_rc = Some("ok") /\ IsNone(queued)

\* result.wait_for_publish(connectTimeout) returns: the message was sent, or
\* the timeout elapsed
WaitForPublish ==
    /\ pc = "waiting"
    /\ publish_rc = Some("ok")
    /\ pc' = "waited"
    /\ UNCHANGED <<cvars, envvars, cfgvars, regvars, sessvars, raised, data, mqttvars,
                   printed, log, exit_status>>

\* result.rc > 0 and wait_for_publish returns all the same
WaitForPublishFailed ==
    /\ pc = "waiting"
    /\ publish_rc = Some("error")
    /\ pc' = "waited"
    /\ UNCHANGED <<cvars, envvars, cfgvars, regvars, sessvars, raised, data, mqttvars,
                   printed, log, exit_status>>

\* result.rc > 0 and wait_for_publish raises on it (paho-mqtt's MQTTMessageInfo
\* raises RuntimeError / ValueError when rc > 0): nothing in mqtt_publish or
\* __main__ catches it, status 1
WaitForPublishRaises ==
    /\ pc = "waiting"
    /\ publish_rc = Some("error")
    /\ publish_result' = Some("failed")
    /\ Exit(1)
    /\ UNCHANGED <<cvars, envvars, cfgvars, regvars, sessvars, raised, data, mqtt,
                   publish_rc, queued, sink, printed, log>>

\* if not result.is_published(): ... else: logger.info("Message published")
LogPublished ==
    /\ pc = "waited"
    /\ IsPublished
    /\ publish_result' = Some("acked")
    /\ log' = Logged("INFO", "message_published")
    /\ pc' = "published"
    /\ UNCHANGED <<cvars, envvars, cfgvars, regvars, sessvars, raised, data, mqtt,
                   publish_rc, queued, sink, printed, exit_status>>

\* if not result.is_published(): logger.warning(...), the message being still
\* queued after the wait (timeout) or refused by client.publish (failure)
WarnNotPublished ==
    /\ pc = "waited"
    /\ ~IsPublished
    /\ publish_result' = Some(IF publish_rc = Some("ok") THEN "timeout" ELSE "failed")
    /\ log' = Logged("WARNING", "publish_warning")
    /\ pc' = "published"
    /\ UNCHANGED <<cvars, envvars, cfgvars, regvars, sessvars, raised, data, mqtt,
                   publish_rc, queued, sink, printed, exit_status>>

\* client.disconnect(), end of the script (status 0)
Disconnect ==
    /\ pc = "published"
    /\ mqtt' = "disconnected"
    /\ Exit(0)
    /\ UNCHANGED <<cvars, envvars, cfgvars, regvars, sessvars, raised, data, publish_rc,
                   queued, sink, publish_result, printed, log>>

---------------------------------------------------------------------------
(* One run *)

Next ==
    \/ LoadSettingsNoFile
    \/ LoadSettingsMissingKey
    \/ LoadSettingsTypeError
    \/ LoadSettingsOk
    \/ ParseArgsNoSettings
    \/ ParseArgsOk
    \/ LogLevelUnsupported
    \/ ConfigureLogging
    \/ SessionEnter
    \/ SessionEnterFails
    \/ GetDevicesFromCache
    \/ GetDevicesBadShapeRaises
    \/ GetDevicesBadShapeAccepted
    \/ GetDevicesRemote
    \/ GetDevicesRemoteRaises
    \/ GetRealtimeData
    \/ GetRealtimeDataRaises
    \/ SessionExit
    \/ ListData
    \/ ListDataRaises
    \/ MqttConnect
    \/ MqttConnectFails
    \/ ClientPublish
    \/ ClientPublishFails
    \/ LoopDeliver
    \/ WaitForPublish
    \/ WaitForPublishFailed
    \/ WaitForPublishRaises
    \/ LogPublished
    \/ WarnNotPublished
    \/ Disconnect

Spec == RunInit /\ [][Next]_vars

\* The run is one sequential thread: a step that can be taken is taken
\* The same run, started with fewer cached plant lists and with the log
\* levels debug (forced or not) and info only: the session's lifetime does
\* not depend on what the loggers emit
FairInit ==
    /\ RunInit
    /\ ~argv.debug
    /\ settings_files[DefaultSettings] \notin {Some(CfgWarn), Some(CfgErr)}
    /\ device_file.kind = "plants" => Len(device_file.plants) <= 1

FairSpec == FairInit /\ [][Next]_vars /\ WF_vars(Next)

---------------------------------------------------------------------------
(* Properties of compute_plant_data *)

Result == Val(computed)

\* Indices of the readings of plant p whose device declares capability cap
IdxOf(p, cap) ==
    { i \in 1..Len(device_data) :
        device_data[i].device.plant = p /\ cap \in device_data[i].device.dev_data }

HasReading(p, cap) == IdxOf(p, cap) # {}

\* The reading of plant p with capability cap that comes last in device_data
LastReading(p, cap) ==
    device_data[CHOOSE i \in IdxOf(p, cap) : \A j \in IdxOf(p, cap) : j <= i]

PresentIffBoth(p) ==
    (p \in DOMAIN Result) <=> (HasReading(p, PRODUCTION) /\ HasReading(p, METER))

\* C1 as stated: for every plant P (with or without a plant reading),
\* compute_plant_data returns an entry for P iff the device readings of P hold
\* a PRODUCTION-capable and a METER-capable reading.
C1_EveryPlant ==
    cpc = "returned" => \A p \in ComputePlants : PresentIffBoth(p)

\* C1 amended: for every plant P that has a reading in plant_data, the result
\* has an entry for P iff the device readings of P hold a PRODUCTION-capable and
\* a METER-capable reading; a plant without a reading in plant_data has no entry.
C1_PlantsWithReading ==
    cpc = "returned" =>
        \A p \in ComputePlants :
            IF p \in PlantsOf(plant_data) THEN PresentIffBoth(p)
            ELSE p \notin DOMAIN Result

\* home has a plant reading, production and meter: present; barn has a plant
\* reading and production only: absent
C1_Witness ==
    /\ cpc = "returned"
    /\ PlantsOf(plant_data) = ComputePlants
    /\ HasReading(PlantHome, PRODUCTION) /\ HasReading(PlantHome, METER)
    /\ HasReading(PlantBarn, PRODUCTION) /\ ~HasReading(PlantBarn, METER)
    /\ DOMAIN Result = {PlantHome}

KeyOrZero(pw, k) == IF k \in DOMAIN pw THEN pw[k] ELSE 0

\* C2: every emitted record has production = mppt_power * 1000 of the (last
\* scanned) production reading, consumption = production - meter - ch_battery
\* + dis_battery with meter the active_power of the (last scanned) meter reading
\* and absent battery figures taken as 0, consumption_pv = min(production,
\* consumption + ch_battery) <= production, and the keys ch_battery and
\* dis_battery exactly when a BATTERY-capable reading of the plant exists.
C2_PowerBalance ==
    cpc = "returned" =>
        \A p \in DOMAIN Result :
            LET pw == Result[p].power
                ch == KeyOrZero(pw, "ch_battery")
                dis == KeyOrZero(pw, "dis_battery")
                meter == Val(LastReading(p, METER).active_power)
            IN /\ pw.production = Val(LastReading(p, PRODUCTION).mppt_power) * 1000
               /\ pw.consumption = pw.production - meter - ch + dis
               /\ pw.consumption_pv =
                      (IF pw.production <= pw.consumption + ch
                       THEN pw.production ELSE pw.consumption + ch)
               /\ pw.consumption_pv <= pw.production
               /\ DOMAIN pw = BaseKeys \cup (IF HasReading(p, BATTERY) THEN BatteryKeys ELSE {})

\* mppt_power = 5, active_power = -1200, no battery: 5000 / 6200 / 5000
C2_Witness ==
    /\ cpc = "returned"
    /\ PlantHome \in DOMAIN Result
    /\ ~HasReading(PlantHome, BATTERY)
    /\ Val(LastReading(PlantHome, PRODUCTION).mppt_power) = 5
    /\ Val(LastReading(PlantHome, METER).active_power) = -1200
    /\ Result[PlantHome].power =
           [production |-> 5000, consumption |-> 6200, consumption_pv |-> 5000]

\* The plants whose record carries the battery figures
WithBattery == { p \in DOMAIN Result : BatteryKeys \subseteq DOMAIN Result[p].power }

BatteryX(p) == Val(LastReading(p, BATTERY).ch_discharge_power)

\* C3 as stated: for every signed x = ch_discharge_power, exactly one of
\* ch_battery, dis_battery is nonzero and ch_battery - dis_battery = x.
C3_ExactlyOne ==
    cpc = "returned" =>
        \A p \in WithBattery :
            LET pw == Result[p].power
            IN /\ (pw.ch_battery # 0) # (pw.dis_battery # 0)
               /\ pw.ch_battery - pw.dis_battery = BatteryX(p)

\* C3 amended: ch_battery and dis_battery are non-negative, at most one of them
\* is nonzero (exactly one when x # 0, none when x = 0), and
\* ch_battery - dis_battery = x.
C3_AtMostOne ==
    cpc = "returned" =>
        \A p \in WithBattery :
            LET pw == Result[p].power
                x == BatteryX(p)
            IN /\ pw.ch_battery >= 0 /\ pw.dis_battery >= 0
               /\ ~(pw.ch_battery # 0 /\ pw.dis_battery # 0)
               /\ (x # 0) <=> ((pw.ch_battery # 0) # (pw.dis_battery # 0))
               /\ pw.ch_battery - pw.dis_battery = x

\* x = -800 with production 5000 and meter -1200: ch 0, dis 800, consumption 7000
C3_Witness ==
    /\ cpc = "returned"
    /\ PlantHome \in WithBattery
    /\ BatteryX(PlantHome) = -800
    /\ Result[PlantHome].power =
           [production |-> 5000, consumption |-> 7000, consumption_pv |-> 5000,
            ch_battery |-> 0, dis_battery |-> 800]

---------------------------------------------------------------------------
(* Properties of one run *)

\* Two readings of plant_data belong to distinct plants that share a name
DuplicatePlantNames ==
    \E i, j \in 1..Len(plant_data) :
        /\ plant_data[i].plant.id # plant_data[j].plant.id
        /\ plant_data[i].plant.name = plant_data[j].plant.name

\* C4: when the plant readings of two distinct plants carry the same name,
\* get_realtime_data fails: it raises and returns no record.
C4_DuplicateNamesRaise ==
    DuplicatePlantNames => (IsNone(data) /\ ~IsNone(raised))

\* C5: whenever the file at the device-file path exists and cannot be parsed as
\* a list of Plant records, get_devices logs the error and requests the plant
\* and device lists; unless a request raises, it overwrites the file with the
\* fetched plants and returns them.
C5_ParseFailureFallsBack ==
    (cache_read = Some("bad_json") \/ cache_read = Some("bad_shape")) =>
        /\ "cache_error" \in log
        /\ \E i \in 1..Len(remote_log) : remote_log[i] = "get_plant_list"
        /\ IsNone(raised) =>
              /\ \E i \in 1..Len(remote_log) : remote_log[i] = "get_device_list"
              /\ ~IsNone(plants)
              /\ device_file = [kind |-> "plants", plants |-> Val(plants)]

\* C6: once the session is acquired it is eventually released, whether
\* get_devices and get_realtime_data return or raise, and no request is issued
\* to the remote source after the release.
C6_SessionReleased ==
    /\ (session = "open") ~> (session = "closed")
    /\ [][session = "closed" => (session' = "closed" /\ remote_log' = remote_log)]_vars

\* The session was released while an exception was propagating
C6_Witness ==
    /\ session = "closed"
    /\ ~IsNone(raised)
    /\ pc = "exited"
    /\ remote_log[Len(remote_log)] = "logout"

\* The record names every plant reading and every device reading
CompleteRecord(rec) ==
    /\ \A i \in 1..Len(plant_data) : pname(plant_data[i]) \in DOMAIN rec.plants
    /\ \A i \in 1..Len(device_data) : dname(device_data[i]) \in DOMAIN rec.devices
    /\ \A p \in DOMAIN Val(computed) : "power" \in DOMAIN rec.plants[p.name]

\* C7: at most one message is published; it is published only after
\* get_devices and get_realtime_data (fetch, composition, normalization)
\* returned without error, and its payload is the serialized complete record;
\* if one of the stages fails nothing is published and no MQTT connection is
\* opened.
C7_NoPartialPublish ==
    /\ Len(sink) + (IF IsNone(queued) THEN 0 ELSE 1) <= 1
    /\ ~IsNone(queued) =>
          (~IsNone(data) /\ IsNone(raised) /\ Val(queued).payload = [json |-> Val(data)])
    /\ sink # <<>> =>
          /\ ~IsNone(plants) /\ ~IsNone(computed) /\ ~IsNone(data) /\ IsNone(raised)
          /\ sink[1] = [topic |-> Val(settings).topic, payload |-> [json |-> Val(data)]]
          /\ CompleteRecord(sink[1].payload.json)
    /\ (~IsNone(raised) \/ IsNone(data)) => (mqtt = "none" /\ sink = <<>>)

\* A message was published for an account with plants and devices
C7_Witness ==
    /\ Len(sink) = 1
    /\ Len(plant_data) = 2
    /\ Len(device_data) >= 3
    /\ publish_result = Some("acked")
    /\ sink[1].payload.json.devices # <<>>

\* C8: a publish failure or an acknowledgment timeout is not fatal:
\* mqtt_publish logs a warning (emitted whenever the configured level admits
\* warnings) and returns, the run disconnects and completes normally.
C8_PublishFailureNotFatal ==
    (publish_result = Some("failed") \/ publish_result = Some("timeout")) =>
        /\ LevelNo["WARNING"] >= Threshold => "publish_warning" \in log
        /\ pc = "exited" => (exit_status = Some(0) /\ mqtt = "disconnected")

\* C9: with --list and the record assembled, the process prints the record and
\* exits with status 0, never connecting to the sink nor publishing.
C9_ListPrintsAndExitsZero ==
    (pc = "exited" /\ ~IsNone(data) /\ Val(args).list) =>
        /\ exit_status = Some(0)
        /\ ~IsNone(printed) /\ ~IsNone(Val(printed).lines)
        /\ mqtt = "none" /\ sink = <<>>

\* C10: the configuration the run loads and uses is read from the path given
\* by --settings, and from settings.yml only when the option is not given.
C10_SettingsFromOption ==
    ~IsNone(args) => settings = settings_files[Val(args).settings]

====
